---- MODULE Spec2Model ----
(***************************************************************************)
(* Model of the dataset catalog of geoserver (src/geoserver/metadata.py):  *)
(* MetadataDB.add_metadata_entry (register), show_meta (list),             *)
(* ds_meta_exists (exists) and get_ds_metadata (get), run by concurrent    *)
(* callers against one DuckDB database file.  Every SQL statement is one   *)
(* atomic step of the storage engine; the Python code between two          *)
(* statements is local to its caller and is folded into the step of the    *)
(* statement that precedes it.                                             *)
(***************************************************************************)
EXTENDS Integers, Sequences, FiniteSets, TLC

VARIABLES
    tableExists,  \* the table dataset_metadata exists in the database file
    rows,         \* the rows of dataset_metadata, in insertion order
    openConns,    \* connections got from duckdb.connect and not yet close()d
    pc,           \* per caller: the statement it is about to execute
    args,         \* per caller: the arguments of the call it is in
    created,      \* per caller: its call has run the CREATE TABLE statement
    last,         \* the call that ended last: its arguments and its outcome
    added,        \* the calls that logged "added entry for dataset", in order
    calls,        \* number of calls started so far
    http          \* the geomesh request handled last: what the engine was
                  \* handed, what the engine did, the response

catalogVars ==
    <<tableExists, rows, openConns, pc, args, created, last, added, calls>>

vars == <<tableExists, rows, openConns, pc, args, created, last, added, calls,
          http>>

(* ----------------------------- bounds ---------------------------------- *)
NumCallers == 2
MaxCalls == 2

Callers == 1..NumCallers

(* --------------------------- constants --------------------------------- *)
METADATA_DB_NAME == "dataset_metadata"
METADATA_TABLE_NAME == "dataset_metadata"
VALID_META_INTERVALS == {"one_time", "yearly", "monthly", "daily"}
VALID_DATASET_TYPES == {"h3", "point"}

(* ------------------------- helpers on sequences ------------------------ *)
Range(s) == {s[i] : i \in DOMAIN s}

(* ------------------ column names and their characters ------------------ *)
\* A string is a sequence of characters, here over the letters a and b, the
\* digit 1 and the punctuation characters _ and -.  AlnumChars are the
\* characters of these for which str.isalnum() is True.
AlnumChars == {"a", "b", "1"}

\* str.isalnum() of one character (metadata.py line 280, the lambda)
isalnum(x) == x \in AlnumChars

\* MetadataDB._get_non_alphanum_chars: delete from s every character that
\* is among the alphanumeric characters of s.
get_non_alphanum_chars(s) ==
    LET char_to_remove == SelectSeq(s, isalnum)
        keep(x) == x \notin Range(char_to_remove)
    IN  SelectSeq(s, keep)

(* ------------------------------ TypeCanon ------------------------------ *)
\* duckdbutils is not part of the sources at hand; it is modelled from the
\* specification (section 4.1): a static alias table over general types.
CanonicalTypeOf ==
    [t \in {"int", "INTEGER", "float", "FLOAT", "VARCHAR"} |->
        CASE t = "int" -> "INTEGER"
          [] t = "INTEGER" -> "INTEGER"
          [] t = "float" -> "FLOAT"
          [] t = "FLOAT" -> "FLOAT"
          [] t = "VARCHAR" -> "VARCHAR"]

is_general_col_type(v) == v \in DOMAIN CanonicalTypeOf

convert_to_cannonical_type(v) == CanonicalTypeOf[v]

(* ------------------------- call arguments ------------------------------ *)
\* value_columns is a Python dict: an insertion-ordered sequence of
\* (key, value) items with distinct keys.
Col(k, v) == [k |-> k, v |-> v]

\* The arguments of one call: op is the operation called.
Args(op, dataset_name, description, value_columns, interval, dataset_type) ==
    [op |-> op, dataset_name |-> dataset_name, description |-> description,
     value_columns |-> value_columns, interval |-> interval,
     dataset_type |-> dataset_type]

NoArgs == Args("none", "", "", <<>>, "", "")

NameInputs == {"ds1", "ds2", METADATA_DB_NAME}

\* (description, value_columns, interval, dataset_type) of the register
\* calls tried: three that pass every check (the second differs from the
\* first in each of the four, the third has an empty column name), and
\* nine that fail one or several checks.
BodyInputs ==
    { <<"d1", <<Col(<<"a">>, "int")>>, "yearly", "h3">>,
      <<"d2", <<Col(<<"a">>, "VARCHAR"), Col(<<"b", "1">>, "float")>>, "daily", "point">>,
      <<"d1", <<Col(<<>>, "int")>>, "yearly", "h3">>,
      <<"d1", <<Col(<<"a", "_", "b", "-">>, "int")>>, "yearly", "h3">>,
      <<"d1", <<Col(<<"_", "a">>, "int"), Col(<<"b", "-">>, "int")>>, "yearly", "h3">>,
      <<"d1", <<Col(<<"a">>, "bogus"), Col(<<"b">>, "int"), Col(<<"1">>, "blob7")>>, "yearly", "h3">>,
      <<"d1", <<Col(<<"a">>, "int")>>, "hourly", "h3">>,
      <<"d1", <<Col(<<>>, "int")>>, "hourly", "h3">>,
      <<"d1", <<Col(<<"a">>, "int")>>, "yearly", "raster">>,
      <<"d1", <<Col(<<"a">>, "int")>>, "hourly", "raster">>,
      <<"d1", <<Col(<<"a">>, "bogus")>>, "hourly", "raster">>,
      <<"d1", <<Col(<<"a">>, "bogus"), Col(<<"_">>, "int")>>, "hourly", "raster">> }

RegisterInputs ==
    {Args("register", n, b[1], b[2], b[3], b[4]) : n \in NameInputs, b \in BodyInputs}

LookupInputs == {"ds1", "ds2"}

(* ------------------------------ results -------------------------------- *)
\* What a call returned (kind = "return") or the class of the exception it
\* raised (kind = the class name), with the parts of the value or of the
\* message that the callers can tell apart.
NoResult ==
    [kind |-> "none", tag |-> "", name |-> "", col |-> <<>>, chars |-> <<>>,
     errors |-> <<>>, out |-> <<>>, flag |-> FALSE]

Raise(kind, tag) == [NoResult EXCEPT !.kind = kind, !.tag = tag]

(* ------------- add_metadata_entry: validation, lines 87-126 ------------ *)
Keys(value_columns) == [i \in DOMAIN value_columns |-> value_columns[i].k]

Values(value_columns) == [i \in DOMAIN value_columns |-> value_columns[i].v]

\* lines 91-98: the loop raises at the first key with a non-alphanumeric
\* character
OffendingKeys(value_columns) ==
    LET bad(k) == Len(get_non_alphanum_chars(k)) > 0
    IN  SelectSeq(Keys(value_columns), bad)

\* The loop left at the first rejected type: one error text at most.
col_errors_FirstOnly(value_columns) ==
    LET rejected(c) == ~is_general_col_type(c.v)
        all == Keys(SelectSeq(value_columns, rejected))
    IN  IF all = <<>> THEN <<>> ELSE <<Head(all)>>

\* lines 100-108: the loop over a copy of the dict; the keys whose type is
\* rejected, in order (one error text per key)
col_errors(value_columns) ==
    LET rejected(c) == ~is_general_col_type(c.v)
    IN  Keys(SelectSeq(value_columns, rejected))

\* lines 103-105: value_columns[k] = cannonical_type for the accepted types
Canonicalized(value_columns) ==
    [i \in DOMAIN value_columns |->
        IF is_general_col_type(value_columns[i].v)
        THEN Col(value_columns[i].k, convert_to_cannonical_type(value_columns[i].v))
        ELSE value_columns[i]]

\* The checks with the interval checked before the dataset type.
ValidationError_IntervalFirst(a) ==
    IF a.dataset_name = METADATA_DB_NAME
    THEN Raise("Exception", "reserved")
    ELSE IF OffendingKeys(a.value_columns) # <<>>
    THEN [Raise("InvalidCharacterException", "column_name")
            EXCEPT !.col = Head(OffendingKeys(a.value_columns)),
                   !.chars = get_non_alphanum_chars(Head(OffendingKeys(a.value_columns)))]
    ELSE IF Len(col_errors(a.value_columns)) > 0
    THEN [Raise("InvalidColumnTypeException", "column_type")
            EXCEPT !.errors = col_errors(a.value_columns)]
    ELSE IF a.interval \notin VALID_META_INTERVALS
    THEN Raise("InvalidArgumentException", "interval")
    ELSE IF a.dataset_type \notin VALID_DATASET_TYPES
    THEN Raise("InvalidArgumentException", "dataset_type")
    ELSE NoResult

\* The exception add_metadata_entry raises before it connects, or NoResult.
ValidationError(a) ==
    IF a.dataset_name = METADATA_DB_NAME
    THEN Raise("Exception", "reserved")
    ELSE IF OffendingKeys(a.value_columns) # <<>>
    THEN [Raise("InvalidCharacterException", "column_name")
            EXCEPT !.col = Head(OffendingKeys(a.value_columns)),
                   !.chars = get_non_alphanum_chars(Head(OffendingKeys(a.value_columns)))]
    ELSE IF Len(col_errors(a.value_columns)) > 0
    THEN [Raise("InvalidColumnTypeException", "column_type")
            EXCEPT !.errors = col_errors(a.value_columns)]
    ELSE IF a.dataset_type \notin VALID_DATASET_TYPES
    THEN Raise("InvalidArgumentException", "dataset_type")
    ELSE IF a.interval \notin VALID_META_INTERVALS
    THEN Raise("InvalidArgumentException", "interval")
    ELSE NoResult

(* ------------------------- the storage engine -------------------------- *)
\* duckdb_check_table_exists(connection, METADATA_TABLE_NAME)
duckdb_check_table_exists == tableExists

\* A table whose dataset_name column is not a key: no INSERT is refused.
ConstraintViolated_NoPrimaryKey(row) == FALSE

\* INSERT INTO dataset_metadata VALUES (?,?,?,?,?): dataset_name is the
\* PRIMARY KEY, a second row with the same key is a ConstraintException.
ConstraintViolated(row) == \E i \in DOMAIN rows : rows[i][1] = row[1]

\* lines 158-166: the row handed to the INSERT
InsertRow(a) ==
    <<a.dataset_name, a.description,
      [key |-> Keys(a.value_columns), value |-> Values(a.value_columns)],
      a.interval, a.dataset_type>>

\* SELECT ... WHERE dataset_name = ?
SelectByName(n) == SelectSeq(rows, LAMBDA r : r[1] = n)

\* The dict with interval and dataset_type taken from each other's column.
RowDict_Swapped(row) ==
    [dataset_name |-> row[1], description |-> row[2], value_columns |-> row[3],
     interval |-> row[5], dataset_type |-> row[4]]

\* lines 203-209 and 257-263: a fetched row as a dict
RowDict(row) ==
    [dataset_name |-> row[1], description |-> row[2], value_columns |-> row[3],
     interval |-> row[4], dataset_type |-> row[5]]

(* ------------------------------ the state ------------------------------ *)
(* ------------------- the HTTP front end: its values -------------------- *)
\* Python values of the temporal fields, and the mark of a field the request
\* body leaves out
PyNone == [t |-> "None", v |-> 0]
PyInt(n) == [t |-> "int", v |-> n]
PyTupleOfNone == [t |-> "tuple(None)", v |-> 0]
Absent == [t |-> "absent", v |-> 0]

TemporalFields == {"year", "month", "day"}

\* the request bodies: each temporal field left out, null, or an integer
\* (the other fields of a body are required or handed on as they are)
Bodies ==
    [year : {Absent, PyNone, PyInt(2024)},
     month : {Absent, PyNone, PyInt(7)},
     day : {Absent, PyNone, PyInt(15)}]

\* pydantic: a field the body leaves out takes the default of the class
\* attribute, which is not validated
FieldOrDefault(body, field, default) ==
    IF body[field] = Absent THEN default ELSE body[field]

\* class GeomeshLatLongRadiusArgs: "month: Optional[int] = None," ends with
\* a comma, so the default of month is the tuple (None,)
GeomeshLatLongRadiusArgs(body) ==
    [year |-> FieldOrDefault(body, "year", PyNone),
     month |-> FieldOrDefault(body, "month", PyTupleOfNone),
     day |-> FieldOrDefault(body, "day", PyNone)]

\* class GeomeshLatLongPointArgs: the same trailing comma
GeomeshLatLongPointArgs(body) ==
    [year |-> FieldOrDefault(body, "year", PyNone),
     month |-> FieldOrDefault(body, "month", PyTupleOfNone),
     day |-> FieldOrDefault(body, "day", PyNone)]

\* class GeomeshCellRadiusArgs: the same trailing comma
GeomeshCellRadiusArgs(body) ==
    [year |-> FieldOrDefault(body, "year", PyNone),
     month |-> FieldOrDefault(body, "month", PyTupleOfNone),
     day |-> FieldOrDefault(body, "day", PyNone)]

\* class GeomeshCellPointArgs: the same trailing comma
GeomeshCellPointArgs(body) ==
    [year |-> FieldOrDefault(body, "year", PyNone),
     month |-> FieldOrDefault(body, "month", PyTupleOfNone),
     day |-> FieldOrDefault(body, "day", PyNone)]

\* class GeomeshShapefileArgs: "month: Optional[int] = None", no comma
GeomeshShapefileArgs(body) ==
    [year |-> FieldOrDefault(body, "year", PyNone),
     month |-> FieldOrDefault(body, "month", PyNone),
     day |-> FieldOrDefault(body, "day", PyNone)]

\* The error kinds of the core; each is a class derived from BgsException.
CoreErrorKinds ==
    {"InvalidCharacterException", "InvalidColumnTypeException",
     "InvalidArgumentException", "BgsAlreadyExistsException",
     "BgsNotFoundException"}

\* isinstance(e, BgsException)
IsBgsException(kind) == kind \in CoreErrorKinds

\* What a call of the Geomesh engine can do: return, or raise an error of a
\* core kind or any other exception, with some message.
EngineOutcomes ==
    {[kind |-> "return", msg |-> ""]}
        \cup [kind : CoreErrorKinds \cup {"Exception", "TypeError"},
              msg : {"m1", "m2"}]

\* the value the endpoint function returns is the response body
Returned == [status |-> 200, detail |-> ""]

\* raise HTTPException(status_code=..., detail=...)
HTTPException(status_code, detail) ==
    [status |-> status_code, detail |-> detail]

\* an exception that leaves the endpoint function: the server's own answer
InternalServerError == [status |-> 500, detail |-> "Internal Server Error"]

NoRequest ==
    [endpoint |-> "none",
     body |-> [year |-> Absent, month |-> Absent, day |-> Absent],
     engine |-> [method |-> "", year |-> Absent, month |-> Absent,
                 day |-> Absent],
     outcome |-> [kind |-> "none", msg |-> ""],
     response |-> [status |-> 0, detail |-> ""]]

Init ==
    /\ http = NoRequest
    /\ tableExists = FALSE
    /\ rows = <<>>
    /\ openConns = 0
    /\ pc = [p \in Callers |-> "idle"]
    /\ args = [p \in Callers |-> NoArgs]
    /\ created = [p \in Callers |-> FALSE]
    /\ last = [args |-> NoArgs, result |-> NoResult, created |-> FALSE]
    /\ added = <<>>
    /\ calls = 0

\* duckdb.connect(database=out_db_path)
Connect == openConns' = openConns + 1

\* connection.close()
Close == openConns' = openConns - 1

CanCall(p) == pc[p] = "idle" /\ calls < MaxCalls

\* caller p enters a call with arguments a and connects
Enter(p, a, label) ==
    /\ args' = [args EXCEPT ![p] = a]
    /\ pc' = [pc EXCEPT ![p] = label]
    /\ Connect
    /\ UNCHANGED <<created, last>>

\* the call of caller p ends: it returns or raises r
Leave(p, r) ==
    /\ last' = [args |-> args[p], result |-> r, created |-> created[p]]
    /\ pc' = [pc EXCEPT ![p] = "idle"]
    /\ args' = [args EXCEPT ![p] = NoArgs]
    /\ created' = [created EXCEPT ![p] = FALSE]

(* ------------------- add_metadata_entry (register) --------------------- *)
\* The connection and the creation of the table moved ahead of the checks:
\* a rejected call has created the table.
AddMetadataEntry_CreateFirst(p) ==
    /\ CanCall(p)
    /\ calls' = calls + 1
    /\ \E a \in RegisterInputs :
        IF ValidationError(a) # NoResult
        THEN /\ last' = [args |-> a, result |-> ValidationError(a), created |-> FALSE]
             /\ tableExists' = TRUE
             /\ UNCHANGED <<pc, args, created, openConns>>
        ELSE /\ Enter(p, [a EXCEPT !.value_columns = Canonicalized(@)], "add_check_table")
             /\ UNCHANGED tableExists
    /\ UNCHANGED <<rows, added>>

\* lines 87-129: the checks, then the connection
AddMetadataEntry(p) ==
    /\ CanCall(p)
    /\ calls' = calls + 1
    /\ \E a \in RegisterInputs :
        IF ValidationError(a) # NoResult
        THEN /\ last' = [args |-> a, result |-> ValidationError(a), created |-> FALSE]
             /\ UNCHANGED <<pc, args, created, openConns>>
        ELSE Enter(p, [a EXCEPT !.value_columns = Canonicalized(@)], "add_check_table")
    /\ UNCHANGED <<tableExists, rows, added>>

\* lines 133-135: if not duckdb_check_table_exists(...)
AddMetadataEntryCheckTable(p) ==
    /\ pc[p] = "add_check_table"
    /\ pc' = [pc EXCEPT ![p] = IF duckdb_check_table_exists
                               THEN "add_insert" ELSE "add_create_table"]
    /\ UNCHANGED <<tableExists, rows, openConns, args, created, last, added, calls>>

\* CREATE OR REPLACE TABLE in place of CREATE TABLE IF NOT EXISTS: a table
\* created by another caller since the check is replaced by an empty one.
AddMetadataEntryCreateTable_Replace(p) ==
    /\ pc[p] = "add_create_table"
    /\ tableExists' = TRUE
    /\ rows' = <<>>
    /\ created' = [created EXCEPT ![p] = TRUE]
    /\ pc' = [pc EXCEPT ![p] = "add_insert"]
    /\ UNCHANGED <<openConns, args, last, added, calls>>

\* lines 141-150: CREATE TABLE IF NOT EXISTS dataset_metadata (...)
AddMetadataEntryCreateTable(p) ==
    /\ pc[p] = "add_create_table"
    /\ tableExists' = TRUE
    /\ created' = [created EXCEPT ![p] = TRUE]
    /\ pc' = [pc EXCEPT ![p] = "add_insert"]
    /\ UNCHANGED <<rows, openConns, args, last, added, calls>>

\* lines 152-177: the INSERT, its except and finally clauses, the return
AddMetadataEntryInsert(p) ==
    /\ pc[p] = "add_insert"
    /\ IF ConstraintViolated(InsertRow(args[p]))
       THEN /\ Leave(p, [Raise("BgsAlreadyExistsException", "exists")
                           EXCEPT !.name = args[p].dataset_name])
            /\ UNCHANGED <<rows, added>>
       ELSE /\ rows' = Append(rows, InsertRow(args[p]))
            /\ added' = Append(added, args[p])
            /\ Leave(p, [NoResult EXCEPT !.kind = "return",
                                         !.name = args[p].dataset_name])
    /\ Close
    /\ UNCHANGED <<tableExists, calls>>

(* --------------------------- show_meta (list) -------------------------- *)
\* lines 181-182
ShowMeta(p) ==
    /\ CanCall(p)
    /\ calls' = calls + 1
    /\ Enter(p, [NoArgs EXCEPT !.op = "list"], "show_check_table")
    /\ UNCHANGED <<tableExists, rows, added>>

\* A table without rows taken for a missing table.
ShowMetaCheckTable_EmptyIsMissing(p) ==
    /\ pc[p] = "show_check_table"
    /\ IF duckdb_check_table_exists /\ rows # <<>>
       THEN /\ pc' = [pc EXCEPT ![p] = "show_select"]
            /\ UNCHANGED <<args, created, last>>
       ELSE Leave(p, Raise("Exception", "no_table"))
    /\ UNCHANGED <<tableExists, rows, openConns, added, calls>>

\* lines 184-187
ShowMetaCheckTable(p) ==
    /\ pc[p] = "show_check_table"
    /\ IF duckdb_check_table_exists
       THEN /\ pc' = [pc EXCEPT ![p] = "show_select"]
            /\ UNCHANGED <<args, created, last>>
       ELSE Leave(p, Raise("Exception", "no_table"))
    /\ UNCHANGED <<tableExists, rows, openConns, added, calls>>

\* lines 189-212
ShowMetaSelect(p) ==
    /\ pc[p] = "show_select"
    /\ Leave(p, [NoResult EXCEPT
                   !.kind = "return",
                   !.out = [i \in DOMAIN rows |-> RowDict(rows[i])]])
    /\ UNCHANGED <<tableExists, rows, openConns, added, calls>>

(* ------------------------ ds_meta_exists (exists) ---------------------- *)
\* lines 216-217
DsMetaExists(p) ==
    /\ CanCall(p)
    /\ calls' = calls + 1
    /\ \E n \in LookupInputs :
        Enter(p, [NoArgs EXCEPT !.op = "exists", !.dataset_name = n],
              "exists_check_table")
    /\ UNCHANGED <<tableExists, rows, added>>

\* lines 219-224
DsMetaExistsCheckTable(p) ==
    /\ pc[p] = "exists_check_table"
    /\ IF duckdb_check_table_exists
       THEN /\ pc' = [pc EXCEPT ![p] = "exists_select"]
            /\ UNCHANGED <<args, created, last>>
       ELSE Leave(p, Raise("Exception", "no_table"))
    /\ UNCHANGED <<tableExists, rows, openConns, added, calls>>

\* lines 226-233: SELECT count(*) ... WHERE dataset_name = ?
DsMetaExistsSelect(p) ==
    /\ pc[p] = "exists_select"
    /\ LET result_raw == <<Len(SelectByName(args[p].dataset_name))>>
       IN  Leave(p, [NoResult EXCEPT !.kind = "return",
                                     !.flag = (result_raw[1] = 1)])
    /\ UNCHANGED <<tableExists, rows, openConns, added, calls>>

(* ------------------------- get_ds_metadata (get) ----------------------- *)
\* lines 237-238
GetDsMetadata(p) ==
    /\ CanCall(p)
    /\ calls' = calls + 1
    /\ \E n \in LookupInputs :
        Enter(p, [NoArgs EXCEPT !.op = "get", !.dataset_name = n],
              "get_check_table")
    /\ UNCHANGED <<tableExists, rows, added>>

\* lines 240-243
GetDsMetadataCheckTable(p) ==
    /\ pc[p] = "get_check_table"
    /\ IF duckdb_check_table_exists
       THEN /\ pc' = [pc EXCEPT ![p] = "get_select"]
            /\ UNCHANGED <<args, created, last>>
       ELSE Leave(p, Raise("Exception", "no_table"))
    /\ UNCHANGED <<tableExists, rows, openConns, added, calls>>

\* lines 257-276: the dict built from the fetched row, the check of its
\* column names, the return
GetDsMetadataResult(result_raw) ==
    LET dict == RowDict(result_raw)
        col_names == dict.value_columns.key
        bad(k) == Len(get_non_alphanum_chars(k)) > 0
        offending == SelectSeq(col_names, bad)
    IN  IF offending # <<>>
        THEN [Raise("InvalidCharacterException", "column_name")
                EXCEPT !.col = Head(offending),
                       !.chars = get_non_alphanum_chars(Head(offending))]
        ELSE [NoResult EXCEPT !.kind = "return", !.out = <<dict>>]

\* lines 245-276: fetchone() gives None when no row matches, and
\* result_raw[0] of None is a TypeError
GetDsMetadataSelect(p) ==
    /\ pc[p] = "get_select"
    /\ LET fetched == SelectByName(args[p].dataset_name)
       IN  Leave(p, IF fetched = <<>>
                    THEN Raise("TypeError", "none_not_subscriptable")
                    ELSE GetDsMetadataResult(Head(fetched)))
    /\ UNCHANGED <<tableExists, rows, openConns, added, calls>>

(* --------------------------- specification ----------------------------- *)
Next ==
    /\ UNCHANGED http
    /\ \E p \in Callers :
        \/ AddMetadataEntry(p)
        \/ AddMetadataEntryCheckTable(p)
        \/ AddMetadataEntryCreateTable(p)
        \/ AddMetadataEntryInsert(p)
        \/ ShowMeta(p)
        \/ ShowMetaCheckTable(p)
        \/ ShowMetaSelect(p)
        \/ DsMetaExists(p)
        \/ DsMetaExistsCheckTable(p)
        \/ DsMetaExistsSelect(p)
        \/ GetDsMetadata(p)
        \/ GetDsMetadataCheckTable(p)
        \/ GetDsMetadataSelect(p)

Spec == Init /\ [][Next]_vars

(* ------------------- the HTTP front end: its endpoints ----------------- *)
\* Each endpoint builds its model from the body, calls the engine inside
\* "try", and turns a BgsException into HTTPException(400, str(e)); any
\* other exception leaves the function.

\* POST /geomesh/latlong/radius/{dataset}
geomesh_latlong_radius_post ==
    \E body \in Bodies, outcome \in EngineOutcomes :
        LET params == GeomeshLatLongRadiusArgs(body)
        IN  /\ http' =
                [endpoint |-> "latlong/radius",
                 body |-> body,
                 engine |-> [method |-> "lat_long_get_radius", year |-> params.year,
                             month |-> params.month, day |-> params.day],
                 outcome |-> outcome,
                 response |->
                    IF outcome.kind = "return" THEN Returned
                    ELSE IF IsBgsException(outcome.kind)
                    THEN HTTPException(400, outcome.msg)
                    ELSE InternalServerError]
            /\ UNCHANGED catalogVars

\* POST /geomesh/latlong/point/{dataset}
geomesh_latlong_point_post ==
    \E body \in Bodies, outcome \in EngineOutcomes :
        LET params == GeomeshLatLongPointArgs(body)
        IN  /\ http' =
                [endpoint |-> "latlong/point",
                 body |-> body,
                 engine |-> [method |-> "lat_long_to_value", year |-> params.year,
                             month |-> params.month, day |-> params.day],
                 outcome |-> outcome,
                 response |->
                    IF outcome.kind = "return" THEN Returned
                    ELSE IF IsBgsException(outcome.kind)
                    THEN HTTPException(400, outcome.msg)
                    ELSE InternalServerError]
            /\ UNCHANGED catalogVars

\* POST /geomesh/cell/radius/{dataset}
geomesh_cell_radius_post ==
    \E body \in Bodies, outcome \in EngineOutcomes :
        LET params == GeomeshCellRadiusArgs(body)
        IN  /\ http' =
                [endpoint |-> "cell/radius",
                 body |-> body,
                 engine |-> [method |-> "cell_get_radius", year |-> params.year,
                             month |-> params.month, day |-> params.day],
                 outcome |-> outcome,
                 response |->
                    IF outcome.kind = "return" THEN Returned
                    ELSE IF IsBgsException(outcome.kind)
                    THEN HTTPException(400, outcome.msg)
                    ELSE InternalServerError]
            /\ UNCHANGED catalogVars

\* POST /geomesh/cell/point/{dataset}
giss_cell_point ==
    \E body \in Bodies, outcome \in EngineOutcomes :
        LET params == GeomeshCellPointArgs(body)
        IN  /\ http' =
                [endpoint |-> "cell/point",
                 body |-> body,
                 engine |-> [method |-> "cell_id_to_value", year |-> params.year,
                             month |-> params.month, day |-> params.day],
                 outcome |-> outcome,
                 response |->
                    IF outcome.kind = "return" THEN Returned
                    ELSE IF IsBgsException(outcome.kind)
                    THEN HTTPException(400, outcome.msg)
                    ELSE InternalServerError]
            /\ UNCHANGED catalogVars

\* The shapefile endpoint with "except Exception": every error is a 400.
geomesh_shapefile_CatchAll ==
    \E body \in Bodies, outcome \in EngineOutcomes :
        LET params == GeomeshShapefileArgs(body)
        IN  /\ http' =
                [endpoint |-> "shapefile",
                 body |-> body,
                 engine |-> [method |-> "shapefile_get", year |-> params.year,
                             month |-> params.month, day |-> params.day],
                 outcome |-> outcome,
                 response |->
                    IF outcome.kind = "return" THEN Returned
                    ELSE IF outcome.kind # "return"
                    THEN HTTPException(400, outcome.msg)
                    ELSE InternalServerError]
            /\ UNCHANGED catalogVars

\* POST /geomesh/shapefile/{dataset}
geomesh_shapefile ==
    \E body \in Bodies, outcome \in EngineOutcomes :
        LET params == GeomeshShapefileArgs(body)
        IN  /\ http' =
                [endpoint |-> "shapefile",
                 body |-> body,
                 engine |-> [method |-> "shapefile_get", year |-> params.year,
                             month |-> params.month, day |-> params.day],
                 outcome |-> outcome,
                 response |->
                    IF outcome.kind = "return" THEN Returned
                    ELSE IF IsBgsException(outcome.kind)
                    THEN HTTPException(400, outcome.msg)
                    ELSE InternalServerError]
            /\ UNCHANGED catalogVars

RouterNext ==
    \/ geomesh_latlong_radius_post
    \/ geomesh_latlong_point_post
    \/ geomesh_cell_radius_post
    \/ giss_cell_point
    \/ geomesh_shapefile

RouterSpec == Init /\ [][RouterNext]_vars

(* ======================= the claims about the catalog ================== *)
Names(log) == {log[i].dataset_name : i \in DOMAIN log}

Entry(n) == CHOOSE e \in Range(added) : e.dataset_name = n

IsRegister(c) == c.args.op = "register"

\* the call reached the INSERT: it returned or was refused by the key
ReachedStorage(c) ==
    IsRegister(c) /\ c.result.kind \in {"return", "BgsAlreadyExistsException"}

AllIdle == \A p \in Callers : pc[p] = "idle"

\* caller p executes its INSERT in this step
InsertStep(p) == pc[p] = "add_insert" /\ pc'[p] = "idle"

\* the rows of name n in a table
RowsOf(table, n) == SelectSeq(table, LAMBDA r : r[1] = n)

\* C1: a register call whose name has already been registered fails with
\* BgsAlreadyExistsException and leaves the stored rows as they were, the
\* row of that name being the one of the first call; a register call whose
\* name has not been registered succeeds, returns the name and stores its
\* own definition.
C1_SecondRegisterRefused ==
    [][\A p \in Callers :
        InsertStep(p) =>
            LET n == args[p].dataset_name
            IN  IF n \in Names(added)
                THEN /\ last'.result.kind = "BgsAlreadyExistsException"
                     /\ rows' = rows
                     /\ RowsOf(rows', n) = <<InsertRow(Entry(n))>>
                ELSE /\ last'.result.kind = "return"
                     /\ last'.result.name = n
                     /\ RowsOf(rows', n) = <<InsertRow(args[p])>>]_vars

\* C1 witness: a second call for a registered name, differing from the
\* first in description, columns, interval and index kind, has been refused.
C1_Witness ==
    /\ AllIdle
    /\ IsRegister(last)
    /\ last.result.kind = "BgsAlreadyExistsException"
    /\ ~last.created
    /\ last.args.dataset_name \in Names(added)
    /\ LET e == Entry(last.args.dataset_name)
       IN  /\ e.description # last.args.description
           /\ e.value_columns # last.args.value_columns
           /\ e.interval # last.args.interval
           /\ e.dataset_type # last.args.dataset_type
           /\ SelectByName(e.dataset_name) = <<InsertRow(e)>>

Count(log, n) == Cardinality({i \in DOMAIN log : log[i].dataset_name = n})

\* C2: whatever the interleaving of the register calls, no name is
\* registered with success more than once, a name has one row per success,
\* and a register call that reached the INSERT either succeeded or failed
\* with BgsAlreadyExistsException, its name then having exactly one row.
C2_AtMostOneSuccessPerName ==
    /\ \A n \in NameInputs :
        /\ Count(added, n) <= 1
        /\ Len(SelectByName(n)) = Count(added, n)
    /\ IsRegister(last) /\ last.result.kind \notin {"Exception",
            "InvalidCharacterException", "InvalidColumnTypeException",
            "InvalidArgumentException"}
        => /\ ReachedStorage(last)
           /\ Len(SelectByName(last.args.dataset_name)) = 1

\* C2 witness: a register call that found no table at its check and ran
\* CREATE TABLE itself has lost the INSERT to a concurrent call.
C2_Witness ==
    /\ AllIdle
    /\ IsRegister(last)
    /\ last.created
    /\ last.result.kind = "BgsAlreadyExistsException"
    /\ Len(SelectByName(last.args.dataset_name)) = 1

\* C3 (as claimed): a register call with the reserved name fails with the
\* InvalidArgument error kind.
C3_ReservedNameIsInvalidArgument ==
    IsRegister(last) /\ last.args.dataset_name = METADATA_DB_NAME
        => last.result.kind = "InvalidArgumentException"

\* ^[A-Za-z0-9]+$
MatchesAlnumPattern(k) == k # <<>> /\ \A i \in DOMAIN k : k[i] \in AlnumChars

IllegalChars(k) == SelectSeq(k, LAMBDA x : x \notin AlnumChars)

HasUnmatchedKey(a) ==
    \E i \in DOMAIN a.value_columns : ~MatchesAlnumPattern(a.value_columns[i].k)

\* C4 (as claimed): a register call (its name not the reserved one) with a
\* column name that does not match ^[A-Za-z0-9]+$ never gets to storage, and
\* fails with InvalidCharacterException naming such a column together with
\* exactly its illegal characters.
C4_UnmatchedColumnNameRejected ==
    /\ \A p \in Callers :
        args[p].op = "register" => ~HasUnmatchedKey(args[p])
    /\ IsRegister(last) /\ last.args.dataset_name # METADATA_DB_NAME
          /\ HasUnmatchedKey(last.args)
        => /\ last.result.kind = "InvalidCharacterException"
           /\ ~MatchesAlnumPattern(last.result.col)
           /\ last.result.chars = IllegalChars(last.result.col)

ValidationTags ==
    {"reserved", "column_name", "column_type", "interval", "dataset_type"}

\* the call was refused by one of the checks of add_metadata_entry
Rejected(c) == IsRegister(c) /\ c.result.tag \in ValidationTags

\* C5: the step in which a register call is refused by a check leaves the
\* table, its rows and the connections as they were (so that list, exists
\* and get answer as before the call), and leaves no caller inside a call
\* it was not in before.
C5_RejectedCallLeavesStorage ==
    [][Rejected(last') /\ (last' # last \/ (calls' # calls /\ pc' = pc))
        => UNCHANGED <<tableExists, rows, openConns, pc>>]_vars

\* C5 witness: a register call has been refused on a catalog that holds a
\* dataset, and the catalog still holds it.
C5_Witness ==
    /\ AllIdle
    /\ Rejected(last)
    /\ last.result.tag = "interval"
    /\ tableExists
    /\ Len(rows) = 1
    /\ Len(added) = 1

\* C6 (as claimed): when no call is in progress no connection is open.
C6_NoConnectionLeftOpen == AllIdle => openConns = 0

\* the definition a get or a list is to give for a registered call
Definition(e) ==
    [dataset_name |-> e.dataset_name, description |-> e.description,
     value_columns |-> [key |-> Keys(e.value_columns),
                        value |-> Values(e.value_columns)],
     interval |-> e.interval, dataset_type |-> e.dataset_type]

CanonicalTypes == {CanonicalTypeOf[t] : t \in DOMAIN CanonicalTypeOf}

\* C7: no step removes or changes a stored row; and for a name that has
\* been registered, exists and get do not fail at the table check, exists
\* returns true, and get returns the name, description, column names with
\* canonical types, interval and index kind of the successful register call.
C7_DefinitionImmutable ==
    [][/\ \A i \in DOMAIN rows : i \in DOMAIN rows' /\ rows'[i] = rows[i]
       /\ \A p \in Callers :
            LET n == args[p].dataset_name
            IN  args[p].op \in {"get", "exists"} /\ n \in Names(added) =>
                  /\ pc[p] \in {"get_check_table", "exists_check_table"}
                        => pc'[p] # "idle"
                  /\ pc[p] = "exists_select" /\ pc'[p] = "idle"
                        => last'.result.kind = "return" /\ last'.result.flag
                  /\ pc[p] = "get_select" /\ pc'[p] = "idle"
                        => /\ last'.result.kind = "return"
                           /\ last'.result.out = <<Definition(Entry(n))>>
                           /\ Range(last'.result.out[1].value_columns.value)
                                \subseteq CanonicalTypes]_vars

\* C7 witness: get has returned the definition of a dataset registered
\* with the type aliases "VARCHAR" and "float".
C7_Witness ==
    /\ last.args.op = "get"
    /\ last.result.kind = "return"
    /\ last.args.dataset_name \in Names(added)
    /\ last.result.out = <<Definition(Entry(last.args.dataset_name))>>
    /\ last.result.out[1].value_columns.value = <<"VARCHAR", "FLOAT">>
    /\ last.result.out[1].interval = "daily"
    /\ last.result.out[1].dataset_type = "point"

NotFoundKinds == {"BgsNotFoundException"}

\* C8 (as claimed): a get for a name that has no row fails with NotFound.
C8_UnregisteredGetIsNotFound ==
    last.args.op = "get" /\ RowsOf(rows, last.args.dataset_name) = <<>>
        => last.result.kind \in NotFoundKinds

\* C9: list fails at its table check exactly when the table does not exist,
\* and then with the "table does not exist" error; it does not fail there
\* once a register call has got past the creation of the table; and what it
\* returns is one entry per registered dataset, in order of registration.
C9_ListUninitializedOrEntries ==
    [][\A p \in Callers :
        /\ pc[p] = "show_check_table" /\ pc'[p] # pc[p] =>
              /\ pc'[p] = "idle" <=> ~tableExists
              /\ pc'[p] = "idle" => last'.result = Raise("Exception", "no_table")
              /\ (added # <<>> \/ \E q \in Callers : pc[q] = "add_insert")
                    => pc'[p] = "show_select"
        /\ pc[p] = "show_select" /\ pc'[p] = "idle" =>
              /\ last'.result.kind = "return"
              /\ last'.result.out = [i \in DOMAIN added |-> Definition(added[i])]]_vars

\* C9 witness: list has returned the one dataset registered.
C9_Witness ==
    /\ last.args.op = "list"
    /\ last.result.kind = "return"
    /\ Len(added) = 1
    /\ last.result.out = <<Definition(added[1])>>

\* whether the arguments fail one check of add_metadata_entry
Fails(a, check) ==
    CASE check = "reserved" -> a.dataset_name = METADATA_DB_NAME
      [] check = "column_name" ->
            \E i \in DOMAIN a.value_columns :
                \E j \in DOMAIN a.value_columns[i].k :
                    a.value_columns[i].k[j] \notin AlnumChars
      [] check = "column_type" ->
            \E i \in DOMAIN a.value_columns :
                ~is_general_col_type(a.value_columns[i].v)
      [] check = "interval" -> a.interval \notin VALID_META_INTERVALS
      [] check = "dataset_type" -> a.dataset_type \notin VALID_DATASET_TYPES

\* the first check of the order that the arguments fail, "" if none
FirstFailing(a, order) ==
    LET failing == SelectSeq(order, LAMBDA c : Fails(a, c))
    IN  IF failing = <<>> THEN "" ELSE Head(failing)

ReportsFirstOf(order) ==
    IsRegister(last) /\ last.result.kind # "BgsAlreadyExistsException"
        => last.result.tag = FirstFailing(last.args, order)

\* C10 (as claimed): the error of a register call is that of the first
\* failing check in the order reserved name, column names, column types,
\* interval, index kind.
C10_IntervalBeforeDatasetType ==
    ReportsFirstOf(<<"reserved", "column_name", "column_type", "interval",
                     "dataset_type">>)

\* C10 (amended): the error of a register call is that of the first failing
\* check in the order reserved name, column names, column types, index
\* kind, interval; a call that fails no check raises none of these errors.
C10_DatasetTypeBeforeInterval ==
    ReportsFirstOf(<<"reserved", "column_name", "column_type", "dataset_type",
                     "interval">>)

\* C10 witness: a call with an invalid interval and an invalid index kind,
\* and nothing else wrong, has been refused with the index kind error.
C10_Witness ==
    /\ IsRegister(last)
    /\ Fails(last.args, "interval") /\ Fails(last.args, "dataset_type")
    /\ ~Fails(last.args, "reserved") /\ ~Fails(last.args, "column_name")
    /\ ~Fails(last.args, "column_type")
    /\ last.result.kind = "InvalidArgumentException"
    /\ last.result.tag = "dataset_type"

\* the column names of the arguments whose type TypeCanon rejects
RejectedTypeKeys(a) ==
    {a.value_columns[i].k :
        i \in {j \in DOMAIN a.value_columns :
                  ~is_general_col_type(a.value_columns[j].v)}}

\* the column names of the arguments with a non-alphanumeric character
OffendingNameKeys(a) ==
    {a.value_columns[i].k :
        i \in {j \in DOMAIN a.value_columns :
                  \E c \in DOMAIN a.value_columns[j].k :
                      a.value_columns[j].k[c] \notin AlnumChars}}

\* C11: a register call that gets to the check of the column types (its
\* name is not the reserved one, no column name is refused) with one or
\* several rejected types fails with one InvalidColumnTypeException whose
\* errors name every column with a rejected type, each once, and no other
\* column.
C11_AllRejectedTypesNamed ==
    IsRegister(last) /\ ~Fails(last.args, "reserved")
          /\ ~Fails(last.args, "column_name")
          /\ RejectedTypeKeys(last.args) # {}
        => /\ last.result.kind = "InvalidColumnTypeException"
           /\ Range(last.result.errors) = RejectedTypeKeys(last.args)
           /\ Len(last.result.errors) = Cardinality(RejectedTypeKeys(last.args))

\* C11 witness: a call with two rejected types and one accepted type has
\* failed with an error naming the two.
C11_Witness ==
    /\ IsRegister(last)
    /\ last.result.kind = "InvalidColumnTypeException"
    /\ Cardinality(RejectedTypeKeys(last.args)) = 2
    /\ Len(last.args.value_columns) = 3
    /\ Len(last.result.errors) = 2
    /\ Range(last.result.errors) = RejectedTypeKeys(last.args)

\* C12: a register call whose name is not the reserved one and in which two
\* or more column names have a non-alphanumeric character fails with an
\* InvalidCharacterException that lists every offending column with its
\* illegal characters: the columns the error names (the exception carries
\* one column, col, and its characters, chars) are all the offending ones.
C12_EveryOffendingColumnListed ==
    IsRegister(last) /\ ~Fails(last.args, "reserved")
          /\ Cardinality(OffendingNameKeys(last.args)) >= 2
        => /\ last.result.kind = "InvalidCharacterException"
           /\ {last.result.col} = OffendingNameKeys(last.args)
           /\ last.result.chars = get_non_alphanum_chars(last.result.col)

(* ===================== the claims about the front end ================== *)
Served == http.endpoint # "none"

Endpoints ==
    {"latlong/radius", "latlong/point", "cell/radius", "cell/point",
     "shapefile"}

\* C13: at each of the five endpoints, an error of a core error kind raised
\* by the engine call gives the response with status 400 whose detail is the
\* error's message, and an error of any other kind gives no client-error
\* response: it gives the server error.
C13_CoreErrorIsClientError ==
    Served /\ http.outcome.kind # "return"
        => /\ http.endpoint \in Endpoints
           /\ http.outcome.kind \in CoreErrorKinds
                => /\ http.response.status = 400
                   /\ http.response.detail = http.outcome.msg
           /\ http.outcome.kind \notin CoreErrorKinds
                => /\ http.response.status = 500
                   /\ http.response.detail # http.outcome.msg

\* C13 witness: the shapefile endpoint has answered an engine error that is
\* not of a core kind, with the server error.
C13_Witness ==
    /\ http.endpoint = "shapefile"
    /\ http.outcome.kind = "TypeError"
    /\ http.outcome.msg = "m2"
    /\ http.response.status = 500

\* C14: at each of the five endpoints, a temporal field (year, month, day)
\* that the request body leaves out is handed to the engine as None.
C14_OmittedTemporalFieldIsNone ==
    Served =>
        \A f \in TemporalFields :
            http.body[f] = Absent => http.engine[f] = PyNone

====
